---- MODULE Spec2Model ----
(***************************************************************************)
(* Flood-segmentation notebook (Model.ipynb): the data pipeline, the       *)
(* training loop, the U-Net forward pass (as tensor shapes), the focal     *)
(* loss and the IoU evaluation, each as a state machine over the           *)
(* notebook's own variables.                                               *)
(***************************************************************************)
EXTENDS Integers, Sequences, FiniteSets, TLC

VARIABLES
    pc,             \* position in the cell being executed
    \* ---- training cell
    train_len,      \* len(train_dataset): rows of train-metadata.csv
    epoch,          \* loop variable of `for epoch in range(num_epochs)`
    sampler,        \* rows the loader being iterated has still to yield
    images,         \* the batch last yielded by a loader (one record per sample)
    steps,          \* number of optimizer.step() calls so far
    printed,        \* epoch numbers printed so far
    loss_bound,     \* whether the name `loss` is bound
    epoch_batches,  \* the batches train_loader yielded in the current epoch
    \* ---- evaluation cell
    test_set,       \* rows of test-metadata.csv: model output and mask of each
    outputs,        \* logits of the current batch, shape (B, 1, H, W)
    masks,          \* masks of the current batch, shape (B, 1, H, W)
    iou,            \* value returned by the last calculate_iou call
    total_iou,
    count,
    average_iou,
    visited,        \* rows yielded by test_loader so far, in order
    \* ---- UNet.forward, each tensor as its shape (N, C, H, W)
    training,       \* model.training: set by model.train(), cleared by model.eval()
    x,
    enc1, enc2, enc3, enc4,
    bottleneck,
    dec1, dec2, dec3, dec4,
    out,            \* the value forward returns
    skips,          \* the crop_and_concat calls made so far: arguments and result
    \* ---- FocalLoss.forward, tensors flattened to sequences, values in fixed point
    inputs,         \* logits
    targets,        \* mask values
    BCE_loss,
    pt,
    focal_weight,   \* self.alpha * (1-pt)**self.gamma
    F_loss,
    loss            \* the value forward returns

trainVars == <<train_len, epoch, sampler, images, steps, printed, loss_bound, epoch_batches>>
evalVars  == <<test_set, outputs, masks, iou, total_iou, count, average_iou,
               visited>>
unetVars  == <<training, x, enc1, enc2, enc3, enc4, bottleneck, dec1, dec2, dec3, dec4,
               out, skips>>
focalVars == <<inputs, targets, BCE_loss, pt, focal_weight, F_loss, loss>>
vars == <<pc, trainVars, evalVars, unetVars, focalVars>>


\* a name not yet bound to a value
NoValue == [num |-> <<>>, den |-> 0]

Min(a, b) == IF a <= b THEN a ELSE b
Max(a, b) == IF a >= b THEN a ELSE b

RECURSIVE SumSeq(_)
SumSeq(s) == IF s = <<>> THEN 0 ELSE Head(s) + SumSeq(Tail(s))

CeilDiv(a, b) == (a + b - 1) \div b

(***************************************************************************)
(* Bounds of the model.                                                    *)
(***************************************************************************)
MaxTrain == 5       \* largest training set explored
MaxTest == 8        \* largest test set explored
MaxSide == 33       \* largest input height and width given to UNet.forward
MaxElements == 2    \* most elements of the tensors given to FocalLoss.forward
MaxLogit == 3       \* largest size of a logit given to FocalLoss.forward
MaxPixels == 4      \* most pixels of one tensor handed to calculate_iou on its own,
                    \* and of one test image

(***************************************************************************)
(* Data pipeline (cell "Dataset Preparation").                             *)
(***************************************************************************)
\* transforms.Compose([...]) as the list of the transforms it applies, in order
data_augmentation ==
    << "RandomHorizontalFlip", "RandomVerticalFlip", "ColorJitter",
       "RandomHorizontalFlip", "RandomVerticalFlip", "RandomRotation", "ColorJitter" >>

image_transform == << "Resize", "ToTensor", "Normalize" >>

mask_transform == << "Resize", "ToTensor" >>

\* Compose.__call__: the transforms of ts applied to a loaded file, one after another
Compose(ts, img) == [img EXCEPT !.applied = img.applied \o ts]

\* FloodDataset(csv_file, img_dir, mask_dir, image_transform, mask_transform)
FloodDataset(len, it, mt) ==
    [len |-> len, image_transform |-> it, mask_transform |-> mt]

train_dataset == FloodDataset(train_len, image_transform, mask_transform)

\* FloodDataset.__getitem__: open the row's two files, apply the dataset's transforms
GetItem(ds, idx) ==
    LET image == [row |-> idx, mode |-> "RGB", applied |-> <<>>]
        mask  == [row |-> idx, mode |-> "L", applied |-> <<>>]
    IN  [image |-> IF ds.image_transform # <<>>
                       THEN Compose(ds.image_transform, image) ELSE image,
         mask  |-> IF ds.mask_transform # <<>>
                       THEN Compose(ds.mask_transform, mask) ELSE mask]

batch_size == 4

\* DataLoader batching (drop_last = False): the next batch is the first
\* batch_size rows the sampler still holds, or all of them when fewer remain
NextBatch(rows) == SubSeq(rows, 1, Min(batch_size, Len(rows)))

AfterBatch(rows) == SubSeq(rows, Min(batch_size, Len(rows)) + 1, Len(rows))

\* a sampler drawing with replacement: a row may come twice, another never
ShuffledOrders_WithReplacement(n) == [1..n -> 0..(n - 1)]

\* RandomSampler (shuffle=True): the orders in which one epoch may visit the rows
\* 0 .. n-1, i.e. all permutations of them
ShuffledOrders(n) == { [i \in 1..n |-> p[i] - 1] : p \in Permutations(1..n) }

\* SequentialSampler (shuffle=False): rows 0 .. n-1 in CSV order
SequentialOrder(n) == [i \in 1..n |-> i - 1]

(***************************************************************************)
(* Training cell.                                                          *)
(***************************************************************************)
num_epochs == 10

\* `for epoch in range(num_epochs):` taking its next value, model.train(), and
\* iter(train_loader) drawing this epoch's shuffled order
EpochStart ==
    /\ pc = "epoch"
    /\ epoch < num_epochs
    /\ \E order \in ShuffledOrders(train_len) : sampler' = order
    /\ epoch_batches' = <<>>
    /\ pc' = "batches"
    /\ training' = TRUE
    /\ UNCHANGED <<train_len, epoch, images, steps, printed, loss_bound>>
    /\ UNCHANGED <<x, enc1, enc2, enc3, enc4, bottleneck, dec1, dec2, dec3, dec4, out, skips>>

\* one iteration of `for images, masks in train_loader:` -- the batch is collated
\* from FloodDataset.__getitem__, passed through the model and the criterion,
\* and the optimizer steps once
TrainStep ==
    /\ pc = "batches"
    /\ sampler # <<>>
    /\ LET rows == NextBatch(sampler)
       IN  /\ images' = [i \in 1..Len(rows) |-> GetItem(train_dataset, rows[i])]
           /\ epoch_batches' = Append(epoch_batches, rows)
    /\ sampler' = AfterBatch(sampler)
    /\ loss_bound' = TRUE
    /\ steps' = steps + 1
    /\ UNCHANGED <<pc, train_len, epoch, printed>>

\* the loader is exhausted: print(f'Epoch {epoch+1}, Loss: {loss.item()}'),
\* a NameError when no batch ever bound `loss`; then the next epoch or the end
EpochPrint ==
    /\ pc = "batches"
    /\ sampler = <<>>
    /\ IF loss_bound
          THEN /\ printed' = Append(printed, epoch + 1)
               /\ epoch' = epoch + 1
               /\ pc' = IF epoch + 1 < num_epochs THEN "epoch" ELSE "done"
          ELSE /\ pc' = "error"
               /\ UNCHANGED <<printed, epoch>>
    /\ UNCHANGED <<train_len, sampler, images, steps, loss_bound, epoch_batches>>

\* a tensor not yet computed
NoTensor == [n |-> 0, c |-> 0, h |-> 0, w |-> 0]

InitUNetIdle ==
    /\ training = FALSE
    /\ x = NoTensor
    /\ enc1 = NoTensor /\ enc2 = NoTensor /\ enc3 = NoTensor /\ enc4 = NoTensor
    /\ bottleneck = NoTensor
    /\ dec1 = NoTensor /\ dec2 = NoTensor /\ dec3 = NoTensor /\ dec4 = NoTensor
    /\ out = NoTensor
    /\ skips = <<>>

InitFocalIdle ==
    /\ inputs = <<>>
    /\ targets = <<>>
    /\ BCE_loss = <<>>
    /\ pt = <<>>
    /\ focal_weight = <<>>
    /\ F_loss = <<>>
    /\ loss = 0

InitEvalIdle ==
    /\ test_set = <<>>
    /\ outputs = <<>>
    /\ masks = <<>>
    /\ iou = NoValue
    /\ total_iou = NoValue
    /\ count = 0
    /\ average_iou = NoValue
    /\ visited = <<>>

InitTrain ==
    /\ pc = "epoch"
    /\ train_len \in 0..MaxTrain
    /\ epoch = 0
    /\ sampler = <<>>
    /\ images = <<>>
    /\ steps = 0
    /\ printed = <<>>
    /\ loss_bound = FALSE
    /\ epoch_batches = <<>>
    /\ InitEvalIdle
    /\ InitUNetIdle
    /\ InitFocalIdle

NextTrain ==
    \/ EpochStart /\ UNCHANGED <<evalVars, focalVars>>
    \/ TrainStep /\ UNCHANGED <<evalVars, unetVars, focalVars>>
    \/ EpochPrint /\ UNCHANGED <<evalVars, unetVars, focalVars>>

SpecTrain == InitTrain /\ [][NextTrain]_vars

(***************************************************************************)
(* UNet (cell "Model Arch").  A tensor is its shape [n, c, h, w]; a layer  *)
(* maps a shape to a shape, or to Raised where PyTorch raises.             *)
(***************************************************************************)
Raised == [n |-> -1, c |-> -1, h |-> -1, w |-> -1]

\* nn.Conv2d(in_ch, out_ch, kernel_size, stride, padding)
Conv2d(in_ch, out_ch, kernel_size, stride, padding, t) ==
    IF t = Raised \/ t.c # in_ch
          \/ t.h + 2 * padding < kernel_size \/ t.w + 2 * padding < kernel_size
    THEN Raised
    ELSE [n |-> t.n, c |-> out_ch,
          h |-> ((t.h + 2 * padding - kernel_size) \div stride) + 1,
          w |-> ((t.w + 2 * padding - kernel_size) \div stride) + 1]

\* nn.BatchNorm2d(ch): in training mode it refuses a single value per channel
BatchNorm2d(ch, train, t) ==
    IF t = Raised \/ t.c # ch \/ (train /\ t.n * t.h * t.w = 1) THEN Raised ELSE t

\* nn.ReLU and nn.Dropout keep the shape
ReLU(t) == t
Dropout(t) == t

\* CBR(in_ch, out_ch, kernel_size=3, stride=1, padding=1)
CBR(in_ch, out_ch, train, t) ==
    Dropout(ReLU(BatchNorm2d(out_ch, train, Conv2d(in_ch, out_ch, 3, 1, 1, t))))

\* nn.MaxPool2d(k): stride k, floor mode; an empty output is refused
MaxPool2d(k, t) ==
    IF t = Raised \/ t.h \div k = 0 \/ t.w \div k = 0 THEN Raised
    ELSE [t EXCEPT !.h = t.h \div k, !.w = t.w \div k]

\* nn.ConvTranspose2d(in_ch, out_ch, kernel_size, stride, padding)
ConvTranspose2d(in_ch, out_ch, kernel_size, stride, padding, t) ==
    IF t = Raised \/ t.c # in_ch THEN Raised
    ELSE [n |-> t.n, c |-> out_ch,
          h |-> (t.h - 1) * stride - 2 * padding + kernel_size,
          w |-> (t.w - 1) * stride - 2 * padding + kernel_size]

\* encoder(in_ch, out_ch): CBR, CBR, MaxPool2d(2)
encoder(m, train, t) ==
    MaxPool2d(2, CBR(m.out_ch, m.out_ch, train, CBR(m.in_ch, m.out_ch, train, t)))

\* a decoder whose transposed convolution has kernel_size 3
decoder_Kernel3(m, train, t) ==
    CBR(m.out_ch, m.out_ch, train,
        CBR(m.out_ch, m.out_ch, train, ConvTranspose2d(m.in_ch, m.out_ch, 3, 2, 0, t)))

\* decoder(in_ch, out_ch, kernel_size=2, stride=2, padding=0): ConvTranspose2d, CBR, CBR
decoder(m, train, t) ==
    CBR(m.out_ch, m.out_ch, train,
        CBR(m.out_ch, m.out_ch, train, ConvTranspose2d(m.in_ch, m.out_ch, 2, 2, 0, t)))

in_channels == 3
out_channels == 1

self_enc1 == [in_ch |-> in_channels, out_ch |-> 64]
self_enc2 == [in_ch |-> 64, out_ch |-> 128]
self_enc3 == [in_ch |-> 128, out_ch |-> 256]
self_enc4 == [in_ch |-> 256, out_ch |-> 512]

\* CBR(512, 1024), CBR(1024, 1024), CBR(1024, 1024)
self_bottleneck(train, t) ==
    CBR(1024, 1024, train, CBR(1024, 1024, train, CBR(512, 1024, train, t)))

self_dec1 == [in_ch |-> 1536, out_ch |-> 1024]
self_dec2 == [in_ch |-> 1024 + 256, out_ch |-> 512]
self_dec3 == [in_ch |-> 512 + 128, out_ch |-> 256]
self_dec4 == [in_ch |-> 256 + 64, out_ch |-> 128]

\* nn.Conv2d(128, out_channels, kernel_size=1): stride 1, padding 0
self_final(t) == Conv2d(128, out_channels, 1, 1, 0, t)

\* torchvision CenterCrop([H, W]): the output is H x W, cut from the middle of
\* the input, which is first zero-padded wherever it is smaller
CenterCrop(H, W, t) == IF t = Raised THEN Raised ELSE [t EXCEPT !.h = H, !.w = W]

\* torch.cat(tensors, 1): all dimensions but 1 must agree
Cat1(a, b) ==
    IF a = Raised \/ b = Raised \/ a.n # b.n \/ a.h # b.h \/ a.w # b.w THEN Raised
    ELSE [a EXCEPT !.c = a.c + b.c]

crop_and_concat(up_tensor, down_tensor) ==
    Cat1(up_tensor, CenterCrop(up_tensor.h, up_tensor.w, down_tensor))

\* a statement of forward binding `name`: the binding, or the exception leaving forward
Bind(name, value, next) ==
    /\ enc1' = IF name = "enc1" THEN value ELSE enc1
    /\ enc2' = IF name = "enc2" THEN value ELSE enc2
    /\ enc3' = IF name = "enc3" THEN value ELSE enc3
    /\ enc4' = IF name = "enc4" THEN value ELSE enc4
    /\ bottleneck' = IF name = "bottleneck" THEN value ELSE bottleneck
    /\ dec1' = IF name = "dec1" THEN value ELSE dec1
    /\ dec2' = IF name = "dec2" THEN value ELSE dec2
    /\ dec3' = IF name = "dec3" THEN value ELSE dec3
    /\ dec4' = IF name = "dec4" THEN value ELSE dec4
    /\ out' = IF name = "out" THEN value ELSE out
    /\ pc' = IF value = Raised THEN "error" ELSE next
    /\ UNCHANGED <<training, x>>

\* decK = self.decK(crop_and_concat(up, down))
BindDecoder(name, m, up, down, next) ==
    /\ skips' = Append(skips, [up |-> up, down |-> down, cat |-> crop_and_concat(up, down),
                               in_ch |-> m.in_ch])
    /\ Bind(name, decoder(m, training, crop_and_concat(up, down)), next)

ForwardEnc1 ==
    pc = "enc1" /\ Bind("enc1", encoder(self_enc1, training, x), "enc2") /\ UNCHANGED skips
ForwardEnc2 ==
    pc = "enc2" /\ Bind("enc2", encoder(self_enc2, training, enc1), "enc3") /\ UNCHANGED skips
ForwardEnc3 ==
    pc = "enc3" /\ Bind("enc3", encoder(self_enc3, training, enc2), "enc4") /\ UNCHANGED skips
ForwardEnc4 ==
    pc = "enc4" /\ Bind("enc4", encoder(self_enc4, training, enc3), "bottleneck")
                /\ UNCHANGED skips
ForwardBottleneck ==
    pc = "bottleneck" /\ Bind("bottleneck", self_bottleneck(training, enc4), "dec1")
                      /\ UNCHANGED skips
ForwardDec1 == pc = "dec1" /\ BindDecoder("dec1", self_dec1, bottleneck, enc4, "dec2")
ForwardDec2 == pc = "dec2" /\ BindDecoder("dec2", self_dec2, dec1, enc3, "dec3")
ForwardDec3 == pc = "dec3" /\ BindDecoder("dec3", self_dec3, dec2, enc2, "dec4")
ForwardDec4 == pc = "dec4" /\ BindDecoder("dec4", self_dec4, dec3, enc1, "final")
ForwardFinal ==
    pc = "final" /\ Bind("out", self_final(dec4), "done") /\ UNCHANGED skips

(***************************************************************************)
(* FocalLoss (cell "Training").  Floats are fixed-point integers: v stands *)
(* for v / Scale.  exp and log1p are computed by their series, each        *)
(* operation rounding down to the grid.                                    *)
(***************************************************************************)
Scale == 10 ^ 4

FxMul(a, b) == (a * b) \div Scale

Abs(a) == IF a < 0 THEN -a ELSE a

\* sum of term, term*q/n, term*q^2/(n(n+1)), ... : the tail of the series of exp(q)
RECURSIVE ExpSeries(_, _, _)
ExpSeries(q, term, n) ==
    IF term = 0 THEN 0 ELSE term + ExpSeries(q, (term * q) \div (n * Scale), n + 1)

\* exp(-b) for b >= 0: exp(-b/4) = 1 / exp(b/4) by the series, then squared twice
ExpNeg(b) ==
    LET e == ExpSeries(b \div 4, Scale, 1)
        r == (Scale * Scale) \div e
        r2 == FxMul(r, r)
    IN  FxMul(r2, r2)

\* sum of u^k/k + u^(k+2)/(k+2) + ...
RECURSIVE AtanhSeries(_, _, _)
AtanhSeries(u, power, k) ==
    IF power = 0 THEN 0 ELSE power \div k + AtanhSeries(u, FxMul(FxMul(power, u), u), k + 2)

\* log1p(z) for 0 <= z <= 1: 2 * atanh(z / (2 + z))
Log1p(z) ==
    LET u == (z * Scale) \div (2 * Scale + z)
    IN  2 * AtanhSeries(u, u, 1)

\* nn.BCEWithLogitsLoss(reduction='none'), element by element:
\* (1 - target) * input + max(-input, 0) + log1p(exp(-|input|))
BCEWithLogits(input, target) ==
    FxMul(Scale - target, input) + Max(-input, 0) + Log1p(ExpNeg(Abs(input)))

alpha == Scale \div 4
gamma == 2

RECURSIVE Pow(_, _)
Pow(a, k) == IF k = 0 THEN Scale ELSE FxMul(a, Pow(a, k - 1))

\* a weight that forgets the complement: alpha * pt**gamma
FocalWeight_NoComplement(p) == FxMul(alpha, Pow(p, gamma))

\* self.alpha * (1-pt)**self.gamma
FocalWeight(p) == FxMul(alpha, Pow(Scale - p, gamma))

\* F_loss.mean()
Mean(s) == SumSeq(s) \div Len(s)

FocalForward ==
    /\ pc = "call"
    /\ LET bce == [i \in 1..Len(inputs) |-> BCEWithLogits(inputs[i], targets[i])]
           p   == [i \in 1..Len(inputs) |-> ExpNeg(bce[i])]
           wt  == [i \in 1..Len(inputs) |-> FocalWeight(p[i])]
           f   == [i \in 1..Len(inputs) |-> FxMul(wt[i], bce[i])]
       IN  /\ BCE_loss' = bce
           /\ pt' = p
           /\ focal_weight' = wt
           /\ F_loss' = f
           /\ loss' = Mean(f)
    /\ pc' = "returned"
    /\ UNCHANGED <<inputs, targets>>

\* ToTensor: the grey level g of a mask pixel becomes the float g / 255
ToTensorValue(g) == (g * Scale) \div 255

(***************************************************************************)
(* Exact arithmetic for the IoU values.  Every value calculate_iou forms   *)
(* is a rational combination of ratios (i + smooth) / (u + smooth) with    *)
(* integer pixel counts i <= u <= MaxPixels.  With X = 1/smooth such a     *)
(* ratio is (1 + i*X) / (1 + u*X), so every value is written               *)
(*         num(X) / (den * Denom(X)),                                      *)
(* num a polynomial in X (coefficients lowest power first), den a positive *)
(* integer and Denom the product of (1 + v*X) for v in 1..MaxPixels.  As   *)
(* long as the coefficients stay below X in size (CoefficientsFit), a      *)
(* polynomial is the base-X expansion of its value and its sign is the     *)
(* sign of its leading coefficient.                                        *)
(***************************************************************************)
SmoothInv == 1000000    \* 1 / smooth, smooth = 1e-6

PCoef(p, i) == IF i \in 1..Len(p) THEN p[i] ELSE 0

PAdd(p, q) == [i \in 1..Max(Len(p), Len(q)) |-> PCoef(p, i) + PCoef(q, i)]

PScale(c, p) == [i \in 1..Len(p) |-> c * p[i]]

PSub(p, q) == PAdd(p, PScale(-1, q))

PMul(p, q) ==
    [k \in 1..(Len(p) + Len(q) - 1) |->
        SumSeq([i \in 1..Len(p) |-> p[i] * PCoef(q, k - i + 1)])]

\* multiplication by X
PShift(p) == <<0>> \o p

PSign(p) ==
    LET nz == {i \in 1..Len(p) : p[i] # 0}
    IN  IF nz = {} THEN 0
        ELSE LET top == CHOOSE i \in nz : \A j \in nz : j <= i
             IN  IF p[top] > 0 THEN 1 ELSE -1

\* the product of (1 + v*X) over v in S
RECURSIVE ProdLinear(_)
ProdLinear(S) ==
    IF S = {} THEN <<1>>
    ELSE LET v == CHOOSE v \in S : TRUE
         IN  PMul(<<1, v>>, ProdLinear(S \ {v}))

Denom == ProdLinear(1..MaxPixels)

RECURSIVE Gcd(_, _)
Gcd(a, b) == IF b = 0 THEN (IF a < 0 THEN -a ELSE a) ELSE Gcd(b, a % b)

RECURSIVE GcdSeq(_)
GcdSeq(s) == IF s = <<>> THEN 0 ELSE Gcd(Head(s), GcdSeq(Tail(s)))

\* lowest terms, so that equal values are equal records
QNorm(num, den) ==
    LET g == Gcd(den, GcdSeq(num))
    IN  [num |-> [i \in 1..Len(Denom) |-> PCoef(num, i) \div g], den |-> den \div g]

QInt(c) == QNorm(PScale(c, Denom), 1)

\* Denom / (1 + u*X)
DenomWithout == [u \in 0..MaxPixels |-> ProdLinear((1..MaxPixels) \ {u})]

\* (i + smooth) / (u + smooth)
QRatio(i, u) == QNorm(PMul(<<1, i>>, DenomWithout[u]), 1)

QAdd(a, b) == QNorm(PAdd(PScale(b.den, a.num), PScale(a.den, b.num)), a.den * b.den)

QDivInt(a, n) == QNorm(a.num, a.den * n)

RECURSIVE QSum(_)
QSum(s) == IF s = <<>> THEN QInt(0) ELSE QAdd(Head(s), QSum(Tail(s)))

QMean(s) == QDivInt(QSum(s), Len(s))

\* sign of a - b
QCmp(a, b) == PSign(PSub(PScale(b.den, a.num), PScale(a.den, b.num)))

QLeq(a, b) == QCmp(a, b) <= 0

\* a <= smooth, i.e. X * a.num <= a.den * Denom
QLeqSmooth(a) == PSign(PSub(PShift(a.num), PScale(a.den, Denom))) <= 0

CoefficientsFit(p) == \A i \in 1..Len(p) : -SmoothInv < p[i] /\ p[i] < SmoothInv

(***************************************************************************)
(* calculate_iou (cell "Test IoU").  A tensor of shape (B, C, H, W) is a   *)
(* sequence indexed t[b][c][h][w].  A logit is an integer; a mask value is *)
(* the grey level g of the file, standing for the float g/255 ToTensor     *)
(* makes of it.                                                            *)
(***************************************************************************)
Dim0(t) == Len(t)
Dim1(t) == Len(t[1])
Dim2(t) == Len(t[1][1])
Dim3(t) == Len(t[1][1][1])

\* torch.sigmoid(logit) > 0.5 holds exactly for logit > 0; .float() and .int() keep 0/1
Thresholded(logit) == IF logit > 0 THEN 1 ELSE 0

\* labels.int(): the float g/255 truncated toward zero
LabelInt(g) == g \div 255

BitAnd(a, b) == IF a = 1 /\ b = 1 THEN 1 ELSE 0
BitOr(a, b) == IF a = 1 \/ b = 1 THEN 1 ELSE 0

\* t.sum((1, 2)): dimensions 1 and 2 of (B, C, H, W) are reduced, leaving (B, W)
SumDims12(t) ==
    [b \in 1..Dim0(t) |-> [w \in 1..Dim3(t) |->
        SumSeq([k \in 1..(Dim1(t) * Dim2(t)) |->
            t[b][((k - 1) \div Dim2(t)) + 1][((k - 1) % Dim2(t)) + 1][w]])]]

\* preds & labels, element by element
TensorAnd(s, t) ==
    [b \in 1..Dim0(s) |-> [c \in 1..Dim1(s) |-> [h \in 1..Dim2(s) |-> [w \in 1..Dim3(s) |->
        BitAnd(s[b][c][h][w], t[b][c][h][w])]]]]

\* preds | labels, element by element
TensorOr(s, t) ==
    [b \in 1..Dim0(s) |-> [c \in 1..Dim1(s) |-> [h \in 1..Dim2(s) |-> [w \in 1..Dim3(s) |->
        BitOr(s[b][c][h][w], t[b][c][h][w])]]]]

calculate_iou(preds, labels) ==
    LET p == [b \in 1..Dim0(preds) |-> [c \in 1..Dim1(preds) |->
                [h \in 1..Dim2(preds) |-> [w \in 1..Dim3(preds) |->
                    Thresholded(preds[b][c][h][w])]]]]
        l == [b \in 1..Dim0(labels) |-> [c \in 1..Dim1(labels) |->
                [h \in 1..Dim2(labels) |-> [w \in 1..Dim3(labels) |->
                    LabelInt(labels[b][c][h][w])]]]]
        intersection == SumDims12(TensorAnd(p, l))
        union == SumDims12(TensorOr(p, l))
        B == Len(intersection)
        W == Len(intersection[1])
        \* iou has shape (B, W); .mean() averages all of its entries
        ratios == [k \in 1..(B * W) |->
                     QRatio(intersection[((k - 1) \div W) + 1][((k - 1) % W) + 1],
                            union[((k - 1) \div W) + 1][((k - 1) % W) + 1])]
    IN  QMean(ratios)

(***************************************************************************)
(* calculate_iou on its own, over every small batch of logits and masks.   *)
(***************************************************************************)
Logits == {-1, 0, 1}
GreyLevels == {0, 128, 255}

Shapes == {s \in (1..MaxPixels) \X {1} \X (1..MaxPixels) \X (1..MaxPixels) :
              s[1] * s[3] * s[4] <= MaxPixels}

TensorsOf(s, V) == [1..s[1] -> [1..s[2] -> [1..s[3] -> [1..s[4] -> V]]]]

InitTrainIdle ==
    /\ train_len = 0
    /\ epoch = 0
    /\ sampler = <<>>
    /\ images = <<>>
    /\ steps = 0
    /\ printed = <<>>
    /\ loss_bound = FALSE
    /\ epoch_batches = <<>>

InitIoU ==
    /\ pc = "call"
    /\ \E s \in Shapes : /\ outputs \in TensorsOf(s, Logits)
                         /\ masks \in TensorsOf(s, GreyLevels)
    /\ iou = NoValue
    /\ test_set = <<>>
    /\ total_iou = NoValue
    /\ count = 0
    /\ average_iou = NoValue
    /\ visited = <<>>
    /\ InitTrainIdle
    /\ InitUNetIdle
    /\ InitFocalIdle

CallIoU ==
    /\ pc = "call"
    /\ iou' = calculate_iou(outputs, masks)
    /\ pc' = "returned"
    /\ UNCHANGED <<test_set, outputs, masks, total_iou, count, average_iou, visited>>
    /\ UNCHANGED <<trainVars, unetVars, focalVars>>

NextIoU == CallIoU

SpecIoU == InitIoU /\ [][NextIoU]_vars

(***************************************************************************)
(* Evaluation cell.                                                        *)
(***************************************************************************)
\* the rows a test set may hold: the logits the trained model (in eval mode a
\* fixed function of the image) gives for the row's image, and the row's mask;
\* each of shape (1, 2, 2)
SampleKinds ==
    { [output |-> << << <<1, -1>>, <<1, -1>> >> >>,
       mask   |-> << << <<255, 255>>, <<255, 0>> >> >>],
      [output |-> << << <<0, 1>>, <<1, 1>> >> >>,
       mask   |-> << << <<128, 255>>, <<0, 0>> >> >>] }

\* model.eval(); total_iou = 0; count = 0; iter(test_loader)
InitEval ==
    /\ pc = "eval"
    /\ \E n \in 0..MaxTest : test_set \in [1..n -> SampleKinds]
    /\ sampler = SequentialOrder(Len(test_set))
    /\ outputs = <<>>
    /\ masks = <<>>
    /\ iou = NoValue
    /\ total_iou = QInt(0)
    /\ count = 0
    /\ average_iou = NoValue
    /\ visited = <<>>
    /\ train_len = 0
    /\ epoch = 0
    /\ images = <<>>
    /\ steps = 0
    /\ printed = <<>>
    /\ loss_bound = FALSE
    /\ epoch_batches = <<>>
    /\ InitUNetIdle
    /\ InitFocalIdle

\* a count of samples instead of batches
CountAfterBatch_Samples(n, rows) == n + Len(rows)

\* count += 1
CountAfterBatch(n, rows) == n + 1

\* one iteration of `for images, masks in test_loader:`
EvalStep ==
    /\ pc = "eval"
    /\ sampler # <<>>
    /\ LET rows == NextBatch(sampler)
           o == [b \in 1..Len(rows) |-> test_set[rows[b] + 1].output]
           m == [b \in 1..Len(rows) |-> test_set[rows[b] + 1].mask]
           v == calculate_iou(o, m)
       IN  /\ outputs' = o
           /\ masks' = m
           /\ iou' = v
           /\ total_iou' = QAdd(total_iou, v)
           /\ visited' = visited \o rows
    /\ count' = CountAfterBatch(count, NextBatch(sampler))
    /\ sampler' = AfterBatch(sampler)
    /\ UNCHANGED <<pc, test_set, average_iou>>
    /\ UNCHANGED <<train_len, epoch, images, steps, printed, loss_bound, epoch_batches>>
    /\ UNCHANGED <<unetVars, focalVars>>

\* average_iou = total_iou / count, a ZeroDivisionError when no batch came
EvalFinish ==
    /\ pc = "eval"
    /\ sampler = <<>>
    /\ IF count = 0
          THEN /\ pc' = "error"
               /\ UNCHANGED average_iou
          ELSE /\ average_iou' = QDivInt(total_iou, count)
               /\ pc' = "done"
    /\ UNCHANGED <<test_set, sampler, outputs, masks, iou, total_iou, count, visited>>
    /\ UNCHANGED <<train_len, epoch, images, steps, printed, loss_bound, epoch_batches>>
    /\ UNCHANGED <<unetVars, focalVars>>

NextEval ==
    \/ EvalStep
    \/ EvalFinish

SpecEval == InitEval /\ [][NextEval]_vars

(***************************************************************************)
(* UNet.forward on its own, over every small input, in either mode.        *)
(***************************************************************************)
InitUNet ==
    /\ pc = "enc1"
    /\ training \in BOOLEAN
    /\ x \in [n : 1..2, c : {in_channels}, h : 1..MaxSide, w : 1..MaxSide]
    /\ enc1 = NoTensor /\ enc2 = NoTensor /\ enc3 = NoTensor /\ enc4 = NoTensor
    /\ bottleneck = NoTensor
    /\ dec1 = NoTensor /\ dec2 = NoTensor /\ dec3 = NoTensor /\ dec4 = NoTensor
    /\ out = NoTensor
    /\ skips = <<>>
    /\ InitTrainIdle
    /\ InitEvalIdle
    /\ InitFocalIdle

NextUNet ==
    \/ ForwardEnc1 /\ UNCHANGED <<trainVars, evalVars, focalVars>>
    \/ ForwardEnc2 /\ UNCHANGED <<trainVars, evalVars, focalVars>>
    \/ ForwardEnc3 /\ UNCHANGED <<trainVars, evalVars, focalVars>>
    \/ ForwardEnc4 /\ UNCHANGED <<trainVars, evalVars, focalVars>>
    \/ ForwardBottleneck /\ UNCHANGED <<trainVars, evalVars, focalVars>>
    \/ ForwardDec1 /\ UNCHANGED <<trainVars, evalVars, focalVars>>
    \/ ForwardDec2 /\ UNCHANGED <<trainVars, evalVars, focalVars>>
    \/ ForwardDec3 /\ UNCHANGED <<trainVars, evalVars, focalVars>>
    \/ ForwardDec4 /\ UNCHANGED <<trainVars, evalVars, focalVars>>
    \/ ForwardFinal /\ UNCHANGED <<trainVars, evalVars, focalVars>>

SpecUNet == InitUNet /\ [][NextUNet]_vars

(***************************************************************************)
(* C5: for every input with H, W >= 16, in each of the four                *)
(* crop_and_concat calls the encoder tensor is spatially at least as large *)
(* as the decoder-path tensor (CenterCrop crops, never pads), the two have *)
(* the same size when H and W are multiples of 16, and the concatenated    *)
(* tensor has the channel count the consuming decoder block expects:       *)
(* 1536, 1280, 640, 320.                                                   *)
(***************************************************************************)
C5_SkipConnectionsMatch ==
    (x.h >= 16 /\ x.w >= 16) =>
        /\ \A k \in 1..Len(skips) :
              /\ skips[k].down.h >= skips[k].up.h
              /\ skips[k].down.w >= skips[k].up.w
              /\ (x.h % 16 = 0 /\ x.w % 16 = 0) =>
                    /\ skips[k].down.h = skips[k].up.h
                    /\ skips[k].down.w = skips[k].up.w
              /\ skips[k].cat # Raised
              /\ skips[k].cat.c = skips[k].in_ch
              /\ skips[k].cat.c = <<1536, 1280, 640, 320>>[k]
        \* the four calls are made: nothing raises, but batch norm in training
        \* mode on a bottleneck of a single value per channel
        /\ (~training \/ x.n * (x.h \div 16) * (x.w \div 16) > 1) => pc # "error"
        /\ pc = "done" => Len(skips) = 4

\* an input whose sides are no multiples of 16: every skip tensor is cropped
C5_Witness ==
    /\ pc = "done"
    /\ x.h = 31 /\ x.w = 30
    /\ Len(skips) = 4
    /\ \A k \in 2..4 : skips[k].down.h > skips[k].up.h /\ skips[k].down.w > skips[k].up.w

(***************************************************************************)
(* FocalLoss.forward on its own, over every small tensor of logits and     *)
(* mask values.                                                            *)
(***************************************************************************)
InitFocal ==
    /\ pc = "call"
    /\ \E n \in 1..MaxElements :
          /\ inputs \in [1..n -> {v * Scale : v \in (-MaxLogit)..MaxLogit}]
          /\ targets \in [1..n -> {ToTensorValue(g) : g \in GreyLevels}]
    /\ BCE_loss = <<>>
    /\ pt = <<>>
    /\ focal_weight = <<>>
    /\ F_loss = <<>>
    /\ loss = 0
    /\ InitTrainIdle
    /\ InitEvalIdle
    /\ InitUNetIdle

NextFocal == FocalForward /\ UNCHANGED <<trainVars, evalVars, unetVars>>

SpecFocal == InitFocal /\ [][NextFocal]_vars

(***************************************************************************)
(* C6: FocalLoss.forward down-weights easy examples.  Per element the loss *)
(* is alpha * (1-pt)^gamma * BCE with pt = exp(-BCE), the probability the  *)
(* model gives the true class; it is non-negative and at most alpha * BCE; *)
(* the weight alpha * (1-pt)^gamma never grows with pt; the value returned *)
(* is the mean of the per-element losses.                                  *)
(***************************************************************************)
\* torch.sigmoid on the same grid
Sigmoid(v) ==
    IF v >= 0 THEN (Scale * Scale) \div (Scale + ExpNeg(v))
    ELSE (ExpNeg(-v) * Scale) \div (Scale + ExpNeg(-v))

\* probability the model gives the class a hard target names
TrueClassProbability(input, target) ==
    IF target = Scale THEN Sigmoid(input) ELSE Scale - Sigmoid(input)

\* rounding error allowed between two fixed-point routes to the same number
Tolerance == Scale \div 1000

SumDims123(t) ==
    [b \in 1..Dim0(t) |->
        SumSeq([k \in 1..(Dim1(t) * Dim2(t) * Dim3(t)) |->
            t[b][((k - 1) \div (Dim2(t) * Dim3(t))) + 1]
                [(((k - 1) \div Dim3(t)) % Dim2(t)) + 1]
                [((k - 1) % Dim3(t)) + 1]])]


Predicted(t) ==
    [b \in 1..Dim0(t) |-> [c \in 1..Dim1(t) |-> [h \in 1..Dim2(t) |-> [w \in 1..Dim3(t) |->
        Thresholded(t[b][c][h][w])]]]]

GroundTruth(t) ==
    [b \in 1..Dim0(t) |-> [c \in 1..Dim1(t) |-> [h \in 1..Dim2(t) |-> [w \in 1..Dim3(t) |->
        LabelInt(t[b][c][h][w])]]]]

\* |P n G| and |P u G| of each image
ImageIntersection(preds, labels) ==
    SumDims123(TensorAnd(Predicted(preds), GroundTruth(labels)))

ImageUnion(preds, labels) ==
    SumDims123(TensorOr(Predicted(preds), GroundTruth(labels)))

PerImageIoU(preds, labels) ==
    QMean([b \in 1..Dim0(preds) |->
             QRatio(ImageIntersection(preds, labels)[b], ImageUnion(preds, labels)[b])])

C1_MeanOfPerImageIoU ==
    pc = "returned" => QCmp(iou, PerImageIoU(outputs, masks)) = 0

\* what the code returns instead: the mean over the B*W columns of the batch
C1_MeanOfPerColumnIoU ==
    pc = "returned" =>
        iou = QMean([k \in 1..(Dim0(outputs) * Dim3(outputs)) |->
                 LET b == ((k - 1) \div Dim3(outputs)) + 1
                     w == ((k - 1) % Dim3(outputs)) + 1
                     col(t) == << << [h \in 1..Dim2(t) |-> <<t[b][1][h][w]>>] >> >>
                 IN  PerImageIoU(col(outputs), col(masks))])

(***************************************************************************)
(* C2: the value calculate_iou returns lies in [0, 1]; it is 1 when in     *)
(* every image the thresholded prediction equals the label mask on every   *)
(* pixel; it is at most 1e-6 when in every image the predicted and the     *)
(* ground-truth positive pixels are disjoint and not both empty.           *)
(***************************************************************************)
PerfectOverlap(preds, labels) == Predicted(preds) = GroundTruth(labels)

NoOverlap(preds, labels) ==
    \A b \in 1..Dim0(preds) :
        /\ ImageIntersection(preds, labels)[b] = 0
        /\ ImageUnion(preds, labels)[b] > 0

C2_InUnitInterval ==
    pc = "returned" => QLeq(QInt(0), iou) /\ QLeq(iou, QInt(1))

C2_OneWhenPerfect ==
    (pc = "returned" /\ PerfectOverlap(outputs, masks)) => QCmp(iou, QInt(1)) = 0

C2_ZeroWhenDisjoint ==
    (pc = "returned" /\ NoOverlap(outputs, masks)) => QLeqSmooth(iou)

C2_RangeAndExtremes ==
    /\ C2_InUnitInterval
    /\ C2_OneWhenPerfect
    /\ C2_ZeroWhenDisjoint

\* the exact arithmetic is sound on every value met
IoUCoefficientsFit ==
    /\ iou # NoValue => CoefficientsFit(PScale(iou.den, iou.num))
    /\ total_iou # NoValue => CoefficientsFit(PScale(total_iou.den, total_iou.num))
    /\ average_iou # NoValue => CoefficientsFit(PScale(average_iou.den, average_iou.num))

(***************************************************************************)
(* C7: the evaluation loop visits every test sample exactly once, in CSV   *)
(* row order, in ceil(N/4) batches; afterwards count = ceil(N/4) and the   *)
(* average is the unweighted mean of the per-batch calculate_iou values,   *)
(* hence the mean of the per-sample values when N is a multiple of 4; for  *)
(* N = 0 the final division is a division by zero and no value is         *)
(* reported.                                                               *)
(***************************************************************************)
\* rows 4(k-1) .. min(4k, N) - 1 of the CSV, as batch k
BatchRows(k) == [i \in 1..(Min(4 * k, Len(test_set)) - 4 * (k - 1)) |-> 4 * (k - 1) + i - 1]

BatchValue(k) ==
    calculate_iou([b \in 1..Len(BatchRows(k)) |-> test_set[BatchRows(k)[b] + 1].output],
                  [b \in 1..Len(BatchRows(k)) |-> test_set[BatchRows(k)[b] + 1].mask])

\* what one sample contributes: calculate_iou of the sample alone
SampleValue(r) == calculate_iou(<<test_set[r + 1].output>>, <<test_set[r + 1].mask>>)

C7_AverageOverBatches ==
    LET N == Len(test_set)
    IN  /\ visited \o sampler = [i \in 1..N |-> i - 1]
        /\ pc = "eval" => count = CeilDiv(Len(visited), 4)
        /\ pc = "done" =>
              /\ N > 0
              /\ visited = [i \in 1..N |-> i - 1]
              /\ count = CeilDiv(N, 4)
              /\ QCmp(average_iou, QMean([k \in 1..CeilDiv(N, 4) |-> BatchValue(k)])) = 0
              /\ N % 4 = 0 =>
                    QCmp(average_iou, QMean([i \in 1..N |-> SampleValue(i - 1)])) = 0
        /\ pc = "error" => N = 0 /\ count = 0 /\ average_iou = NoValue
        /\ (N = 0 /\ pc # "eval") => pc = "error"

\* two full batches of differing content
C7_Witness ==
    /\ pc = "done"
    /\ Len(test_set) = 8
    /\ count = 2
    /\ \E i, j \in 1..8 : test_set[i] # test_set[j]
    /\ QCmp(BatchValue(1), BatchValue(2)) # 0

\* a short last batch weighs as much as a full one: the average then differs
\* from the mean over the samples
C7_ShortBatchSeen ==
    /\ pc = "done"
    /\ Len(test_set) = 5
    /\ QCmp(average_iou, QMean([i \in 1..5 |-> SampleValue(i - 1)])) # 0

(***************************************************************************)
(* C3: every training image that reaches the model's forward pass has      *)
(* first passed through the data_augmentation pipeline (rotation, flips).  *)
(***************************************************************************)
\* the transforms of ts were applied to img, in order and without a gap
PassedThrough(img, ts) ==
    \E k \in 0..(Len(img.applied) - Len(ts)) :
        SubSeq(img.applied, k + 1, k + Len(ts)) = ts

C3_AugmentedBeforeForward ==
    (pc \in {"epoch", "batches", "done"}) =>
        \A i \in 1..Len(images) : PassedThrough(images[i].image, data_augmentation)

\* what does hold: the images went through image_transform alone
C3_OnlyImageTransform ==
    steps > 0 => \A i \in 1..Len(images) : images[i].image.applied = image_transform

(***************************************************************************)
(* C4: with N >= 1 training samples the loop terminates after exactly 10   *)
(* epochs; each epoch puts every sample in exactly one batch of at most 4  *)
(* (a permutation, the short last batch kept), so there are 10*ceil(N/4)  *)
(* optimizer steps and the epoch lines 1..10 are printed in order.         *)
(***************************************************************************)
RECURSIVE Flatten(_)
Flatten(ss) == IF ss = <<>> THEN <<>> ELSE Head(ss) \o Flatten(Tail(ss))

IsPermutationOfRows(s, n) ==
    /\ Len(s) = n
    /\ \A r \in 0..(n - 1) : Cardinality({i \in 1..Len(s) : s[i] = r}) = 1

C4_EpochInv ==
    (train_len >= 1 /\ pc \in {"batches", "done"}) =>
        /\ pc # "error"
        \* batches already yielded plus rows still to come: each sample once
        /\ IsPermutationOfRows(Flatten(epoch_batches) \o sampler, train_len)
        /\ \A k \in 1..Len(epoch_batches) :
              /\ Len(epoch_batches[k]) \in 1..4
              /\ (k < Len(epoch_batches) \/ sampler # <<>>) => Len(epoch_batches[k]) = 4
        /\ sampler = <<>> => Len(epoch_batches) = CeilDiv(train_len, 4)
        /\ printed = [i \in 1..epoch |-> i]
        /\ pc = "batches" => /\ epoch < 10
                             /\ steps = epoch * CeilDiv(train_len, 4) + Len(epoch_batches)
        /\ pc = "done" => /\ steps = 10 * CeilDiv(train_len, 4)
                          /\ printed = <<1, 2, 3, 4, 5, 6, 7, 8, 9, 10>>

\* statements executed so far: one per loop header entered, batch and print
C4_Progress == steps + 2 * epoch + (IF pc = "batches" THEN 1 ELSE 0)

\* the loop is never stuck short of its end, every step advances C4_Progress,
\* which 10 * ceil(N/4) + 20 bounds: so the loop ends, and it ends as C4_EpochInv says
C4_TenEpochsThenDone ==
    /\ [](C4_EpochInv /\ (train_len >= 1 => C4_Progress <= 10 * CeilDiv(train_len, 4) + 20))
    /\ [](train_len >= 1 => (pc = "done" \/ ENABLED NextTrain))
    /\ [][train_len >= 1 => C4_Progress' > C4_Progress]_vars

C4_Witness ==
    /\ pc = "done"
    /\ train_len = 5
    /\ steps = 20
    /\ Len(epoch_batches) = 2
    /\ Len(epoch_batches[2]) = 1

====
